---- MODULE Spec2Model ----
(* Model of aspire-client's transaction command (client.py main, lines      *)
(* 178-215) and of the construction-method dispatch it composes through      *)
(* (clientapi.py call, lines 152-184).  Each action is one step of main:     *)
(* one backend call, prompt or log line, with the outcome of the external    *)
(* service chosen nondeterministically.                                      *)
EXTENDS Integers, Sequences, FiniteSets, TLC

\* ---------------------------------------------------------------- bounds
NumHex == 2        \* distinct hex strings / hashes a backend may return
MaxQuantity == 2   \* quantities range over 1..MaxQuantity

\* ---------------------------------------------------------------- values
\* Tagged values carried by events: <<tag, n>>.
None == <<"none", 0>>
Ok == <<"ok", 0>>
Raised == <<"raised", 0>>
True == <<"bool", 1>>
False == <<"bool", 0>>

UnsignedHexes == {<<"unsigned", i>> : i \in 1..NumHex}
SignedHexes == {<<"signed", i>> : i \in 1..NumHex}
TxHashes == {<<"hash", i>> : i \in 1..NumHex}

\* Addresses are the '_'-separated tokens of the address string: a plain
\* address is one token, a multisig descriptor is M, members..., N.
PlainA == <<"A">>
PlainB == <<"B">>
Multi2of3 == <<"2", "A", "B", "C", "3">>
Addresses == {PlainA, PlainB, Multi2of3}
Members == {"A", "B", "C"}

is_multisig(address) == Len(address) > 1

extract_members(address) == SubSeq(address, 2, Len(address) - 1)

\* The lookup callback returns the key tied to one member address.
pubkey_resolver(a) == <<"pubkey", a>>

\* get_pubkeys(address, pubkey_resolver): the member keys in descriptor
\* order, or the one key of a plain address.
get_pubkeys(address) ==
    IF is_multisig(address)
    THEN [i \in 1..Len(extract_members(address)) |->
              pubkey_resolver(extract_members(address)[i])]
    ELSE <<pubkey_resolver(address[1])>>

\* Member addresses the callback is asked about for one address.
needed(address) ==
    IF is_multisig(address)
    THEN {extract_members(address)[i] : i \in 1..Len(extract_members(address))}
    ELSE {address[1]}

\* ---------------------------------------------------------------- commands
MESSAGE_PARAMS == {"send", "destroy"}
VIEW_ACTIONS == {"balances"}
OTHER_ACTIONS == {"none"}

Assets == {"FOO", "BAR"}
Quantities == 1..MaxQuantity

\* Command lines: send carries a destination, destroy does not.
SendArgs ==
    [action : {"send"}, unsigned : BOOLEAN, source : Addresses,
     destination : {PlainB, Multi2of3}, quantity : Quantities, asset : {"FOO"}]
DestroyArgs ==
    [action : {"destroy"}, unsigned : BOOLEAN, source : Addresses,
     quantity : Quantities, asset : {"FOO"}]
OtherArgs == [action : VIEW_ACTIONS \cup OTHER_ACTIONS, unsigned : {FALSE}]
CommandLines == SendArgs \cup DestroyArgs \cup OtherArgs

\* Method names are their '_'-separated tokens: create_send is <<"create", "send">>.
create_method(action) == <<"create", action>>
startswith_create(method) == method[1] = "create"

WALLET_METHODS ==
    {<<"get", "wallet", "addresses">>, <<"get", "gasp", "balances">>,
     <<"sign", "raw", "transaction">>, <<"get", "pubkey">>, <<"is", "valid">>,
     <<"is", "mine">>, <<"get", "gasp", "balance">>,
     <<"send", "raw", "transaction">>, <<"wallet">>, <<"asset">>,
     <<"balances">>, <<"is", "locked">>, <<"unlock">>,
     <<"wallet", "last", "block">>}

\* The parameters compose extracts from the command line.
extract_args(a) ==
    IF "destination" \in DOMAIN a
    THEN [source |-> a.source, destination |-> a.destination,
          quantity |-> a.quantity, asset |-> a.asset]
    ELSE [source |-> a.source, quantity |-> a.quantity, asset |-> a.asset]

\* Variant: the destination's keys are resolved whether multisig or not.
resolved_addresses_both(params) ==
    (IF "source" \in DOMAIN params THEN <<params.source>> ELSE << >>)
    \o (IF "destination" \in DOMAIN params THEN <<params.destination>> ELSE << >>)

\* call, lines 171-176: the addresses whose keys are resolved, in slot order.
resolved_addresses(params) ==
    (IF "source" \in DOMAIN params THEN <<params.source>> ELSE << >>)
    \o (IF "destination" \in DOMAIN params /\ is_multisig(params.destination)
        THEN <<params.destination>> ELSE << >>)

\* The argument name of the i-th of those addresses.
resolved_name(params, i) ==
    IF "source" \in DOMAIN params /\ i = 1 THEN "source" ELSE "destination"

RECURSIVE concat_pubkeys(_)
concat_pubkeys(addrs) ==
    IF addrs = << >> THEN << >>
    ELSE get_pubkeys(Head(addrs)) \o concat_pubkeys(Tail(addrs))

\* Variant: a 'pubkey' value the caller supplied is kept.
inject_pubkeys_keep(params) ==
    params @@ [pubkey |-> concat_pubkeys(resolved_addresses(params))]

\* call, line 177: args['pubkey'] = pubkeys.
inject_pubkeys(params) ==
    [pubkey |-> concat_pubkeys(resolved_addresses(params))] @@ params

\* What the server's transaction decodes to, next to its hex.
ServerResults(params) ==
    [hex : UnsignedHexes,
     source : {PlainB} \cup (IF "source" \in DOMAIN params THEN {params.source} ELSE {}),
     quantity : Quantities, asset : Assets]

NoResult == [hex |-> None, source |-> << >>, quantity |-> 0, asset |-> ""]

\* check_transaction(method, args, result): the result echoes the request.
check_transaction(params, result) ==
    /\ result.asset = params.asset
    /\ result.quantity = params.quantity
    /\ "source" \in DOMAIN params => result.source = params.source

\* What a read method of the server returns: rows, no transaction.
ReadResults ==
    {[hex |-> <<"rows", i>>, source |-> << >>, quantity |-> 0, asset |-> ""] :
        i \in 1..NumHex}

\* What a wallet function returns, and the exceptions it may end with.
WalletResults ==
    {[hex |-> v, source |-> << >>, quantity |-> 0, asset |-> ""] :
        v \in {True, False} \cup SignedHexes}
WalletErrors == {"AdapterError", "WalletError"}

\* A 'pubkey' value a caller may have put into the arguments itself.
CallerPubkey == <<pubkey_resolver("Z")>>

\* Calls a program makes through call: wallet functions, construction
\* methods with and without source, destination and own 'pubkey', and read
\* methods, some of which carry address arguments too.
WalletCalls ==
    [action : {"call"}, method : {<<"is", "mine">>},
     params : [address : {PlainA, Multi2of3}]]
    \cup [action : {"call"}, method : {<<"sign", "raw", "transaction">>},
          params : [tx_hex : UnsignedHexes, source : {PlainA}]]
CreateParams ==
    [source : Addresses, destination : Addresses, quantity : {1}, asset : {"FOO"}]
    \cup [source : Addresses, quantity : {1}, asset : {"FOO"}]
    \cup [destination : Addresses, quantity : {1}, asset : {"FOO"}]
    \cup [source : Addresses, destination : Addresses, quantity : {1},
          asset : {"FOO"}, pubkey : {CallerPubkey}]
CreateCalls ==
    [action : {"call"}, method : {create_method("send")}, params : CreateParams]
ReadCalls ==
    [action : {"call"}, method : {<<"get", "balances">>, <<"get", "sends">>},
     params : [source : {PlainA, Multi2of3}, destination : {Multi2of3}]
              \cup [address : {PlainA}]
              \cup [source : {PlainA}, pubkey : {CallerPubkey}]]
DispatchCalls == WalletCalls \cup CreateCalls \cup ReadCalls

Answers == {"y", "n", "", "Y"}
PrivateKeys == {"", "K1"}
Passphrases == {"pw"}

\* ---------------------------------------------------------------- configuration
\* Port options as the caller hands them over: absent, an integer, a numeric
\* string or a string that is no number.
PortNone == [kind |-> "none", val |-> 0]
PortInt(n) == [kind |-> "int", val |-> n]
PortStr(n) == [kind |-> "str", val |-> n]
PortBad == [kind |-> "badstr", val |-> 0]

\* The per-network default ports of aspirelib's config.
DEFAULT_RPC_PORT == 4000
DEFAULT_RPC_PORT_TESTNET == 14000
DEFAULT_BACKEND_PORT == 8332
DEFAULT_BACKEND_PORT_TESTNET == 18332

PortOptions ==
    {PortNone, PortBad, PortStr(0), PortStr(4001)}
    \cup {PortInt(n) : n \in {-1, 0, 1, 2, 65534, 65535}}

\* Variant: only an absent option counts as unset; the integer 0 is a supplied
\* port like any other.
port_given_not_none(p) == p.kind # "none"

\* Python truthiness of a port option (lines 43 and 89).
port_given(p) ==
    CASE p.kind = "none" -> FALSE
      [] p.kind = "int" -> p.val # 0
      [] OTHER -> TRUE

\* int(port) succeeds on integers and numeric strings (lines 51 and 97).
int_ok(p) == p.kind \in {"int", "str"}
int_of(p) == PortInt(p.val)

\* Variant: both ends of the range are accepted.
port_in_range_inclusive(n) == n >= 1 /\ n <= 65535

\* The range test of lines 52 and 98.
port_in_range(n) == n > 1 /\ n < 65535

\* Python truthiness of a string option; "None" stands for an absent one.
given(str) == str \notin {"None", ""}

\* quote_plus on the strings used here.
urlencode(str) ==
    CASE str = "p w" -> "p+w"
      [] str = "p@ss" -> "p%40ss"
      [] OTHER -> str

Passwords == {"None", "", "p w"}
RpcPasswords == {"None", "p@ss"}

DEFAULT_REQUESTS_TIMEOUT == 5
LongTimeout == 30
Timeouts == {DEFAULT_REQUESTS_TIMEOUT, LongTimeout}

\* The keyword arguments of initialize.
Options ==
    [testnet : BOOLEAN,
     aspire_rpc_port : PortOptions, aspire_rpc_password : RpcPasswords,
     aspire_rpc_ssl : BOOLEAN,
     wallet_port : PortOptions, wallet_password : Passwords,
     wallet_ssl : BOOLEAN, requests_timeout : Timeouts]

\* One of the two network parameter sets of aspirelib's config.
NetworkParam(net, name) == <<net, name>>

Url(scheme, user, password, host, port, path) ==
    [scheme |-> scheme, user |-> user, password |-> password, host |-> host,
     port |-> port, path |-> path]
NoUrl == Url("unset", "", "", "", 0, "")

\* The module globals of config before any initialize.
UnsetConfig ==
    [TESTNET |-> FALSE,
     ASPIRE_RPC_CONNECT |-> "unset", ASPIRE_RPC_PORT |-> PortNone,
     ASPIRE_RPC_USER |-> "unset", ASPIRE_RPC_PASSWORD |-> "unset",
     ASPIRE_RPC_SSL |-> FALSE, ASPIRE_RPC_SSL_VERIFY |-> FALSE,
     ASPIRE_RPC |-> NoUrl,
     WALLET_NAME |-> "unset", WALLET_CONNECT |-> "unset",
     WALLET_PORT |-> PortNone, WALLET_USER |-> "unset",
     WALLET_PASSWORD |-> "unset",
     WALLET_SSL |-> FALSE, WALLET_SSL_VERIFY |-> FALSE,
     WALLET_URL |-> NoUrl,
     REQUESTS_TIMEOUT |-> 0, PREFIX |-> "unset",
     MAGIC_BYTES |-> NetworkParam("UNSET", "MAGIC_BYTES"),
     ADDRESSVERSION |-> NetworkParam("UNSET", "ADDRESSVERSION"),
     P2SH_ADDRESSVERSION |-> NetworkParam("UNSET", "P2SH_ADDRESSVERSION"),
     BLOCK_FIRST |-> NetworkParam("UNSET", "BLOCK_FIRST"),
     UNSPENDABLE |-> NetworkParam("UNSET", "UNSPENDABLE")]

\* initialize, lines 43-49: the protocol-server port before conversion.
rpc_port_choice(o) ==
    IF port_given(o.aspire_rpc_port) THEN o.aspire_rpc_port
    ELSE IF o.testnet THEN PortInt(DEFAULT_RPC_PORT_TESTNET)
    ELSE PortInt(DEFAULT_RPC_PORT)

\* initialize, lines 89-95: the wallet port before conversion.
wallet_port_choice(o) ==
    IF port_given(o.wallet_port) THEN o.wallet_port
    ELSE IF o.testnet THEN PortInt(DEFAULT_BACKEND_PORT_TESTNET)
    ELSE PortInt(DEFAULT_BACKEND_PORT)

\* initialize, lines 76-79.
rpc_scheme(c) == IF c.ASPIRE_RPC_SSL THEN "https" ELSE "http"

\* Variant: the wallet scheme follows the protocol server's SSL flag.
wallet_scheme_shared(c) == IF c.ASPIRE_RPC_SSL THEN "https" ELSE "http"

\* initialize, lines 120-123.
wallet_scheme(c) == IF c.WALLET_SSL THEN "https" ELSE "http"

\* initialize, lines 72-80.
rpc_url(c) ==
    Url(rpc_scheme(c),
        IF given(c.ASPIRE_RPC_PASSWORD) THEN urlencode(c.ASPIRE_RPC_USER) ELSE "",
        IF given(c.ASPIRE_RPC_PASSWORD) THEN urlencode(c.ASPIRE_RPC_PASSWORD) ELSE "",
        c.ASPIRE_RPC_CONNECT, c.ASPIRE_RPC_PORT.val, "/rpc/")

\* initialize, lines 118-123.
wallet_url(c) ==
    Url(wallet_scheme(c), urlencode(c.WALLET_USER), urlencode(c.WALLET_PASSWORD),
        c.WALLET_CONNECT, c.WALLET_PORT.val, "")

\* Variant: the P2SH version is always taken from the mainnet set.
network_p2sh_mainnet(c) ==
    LET net == IF c.TESTNET THEN "TESTNET" ELSE "MAINNET"
    IN [c EXCEPT !.MAGIC_BYTES = NetworkParam(net, "MAGIC_BYTES"),
                 !.ADDRESSVERSION = NetworkParam(net, "ADDRESSVERSION"),
                 !.P2SH_ADDRESSVERSION = NetworkParam("MAINNET", "P2SH_ADDRESSVERSION"),
                 !.BLOCK_FIRST = NetworkParam(net, "BLOCK_FIRST"),
                 !.UNSPENDABLE = NetworkParam(net, "UNSPENDABLE")]

\* initialize, lines 130-142: bind one network parameter set.
network(c) ==
    LET net == IF c.TESTNET THEN "TESTNET" ELSE "MAINNET"
    IN [c EXCEPT !.MAGIC_BYTES = NetworkParam(net, "MAGIC_BYTES"),
                 !.ADDRESSVERSION = NetworkParam(net, "ADDRESSVERSION"),
                 !.P2SH_ADDRESSVERSION = NetworkParam(net, "P2SH_ADDRESSVERSION"),
                 !.BLOCK_FIRST = NetworkParam(net, "BLOCK_FIRST"),
                 !.UNSPENDABLE = NetworkParam(net, "UNSPENDABLE")]

\* The exception the failed protocol-server port check ends with (line 55).
rpc_port_error == "Exception"

\* The exception the failed wallet port check ends with (line 101).
wallet_port_error == "ConfigurationError"

Outcome(c, exc) == [config |-> c, exc |-> exc]

\* Variant: the network parameters are bound right where the network mode is
\* set, before the port checks.
init_rpc_port_binds_network(cfg, o) ==
    LET c1 == [network([cfg EXCEPT !.TESTNET = o.testnet])
                   EXCEPT !.ASPIRE_RPC_CONNECT = "localhost",
                          !.ASPIRE_RPC_PORT = rpc_port_choice(o)]
        c2 == [c1 EXCEPT !.ASPIRE_RPC_PORT = int_of(c1.ASPIRE_RPC_PORT)]
    IN IF ~int_ok(c1.ASPIRE_RPC_PORT) THEN Outcome(c1, rpc_port_error)
       ELSE IF ~port_in_range(c2.ASPIRE_RPC_PORT.val) THEN Outcome(c2, rpc_port_error)
       ELSE Outcome(c2, "none")

\* initialize, lines 34-55: network mode, host and port of the protocol server.
init_rpc_port(cfg, o) ==
    LET c1 == [cfg EXCEPT !.TESTNET = o.testnet,
                          !.ASPIRE_RPC_CONNECT = "localhost",
                          !.ASPIRE_RPC_PORT = rpc_port_choice(o)]
        c2 == [c1 EXCEPT !.ASPIRE_RPC_PORT = int_of(c1.ASPIRE_RPC_PORT)]
    IN IF ~int_ok(c1.ASPIRE_RPC_PORT) THEN Outcome(c1, rpc_port_error)
       ELSE IF ~port_in_range(c2.ASPIRE_RPC_PORT.val) THEN Outcome(c2, rpc_port_error)
       ELSE Outcome(c2, "none")

\* initialize, lines 57-80: credentials, SSL and URL of the protocol server.
init_rpc_url(cfg, o) ==
    LET c1 == [cfg EXCEPT !.ASPIRE_RPC_USER = "rpc",
                          !.ASPIRE_RPC_PASSWORD =
                              IF given(o.aspire_rpc_password)
                              THEN o.aspire_rpc_password ELSE "None",
                          !.ASPIRE_RPC_SSL = o.aspire_rpc_ssl,
                          !.ASPIRE_RPC_SSL_VERIFY = FALSE]
    IN [c1 EXCEPT !.ASPIRE_RPC = rpc_url(c1)]

\* initialize, lines 82-110: name, host, port, user and password of the wallet.
init_wallet(cfg, o) ==
    LET c1 == [cfg EXCEPT !.WALLET_NAME = "bitcoincore",
                          !.WALLET_CONNECT = "localhost",
                          !.WALLET_PORT = wallet_port_choice(o)]
        c2 == [c1 EXCEPT !.WALLET_PORT = int_of(c1.WALLET_PORT)]
        c3 == [c2 EXCEPT !.WALLET_USER = "gasprpc"]
        c4 == [c3 EXCEPT !.WALLET_PASSWORD = o.wallet_password]
    IN IF ~int_ok(c1.WALLET_PORT) THEN Outcome(c1, wallet_port_error)
       ELSE IF ~port_in_range(c2.WALLET_PORT.val) THEN Outcome(c2, wallet_port_error)
       ELSE IF ~given(o.wallet_password) THEN Outcome(c3, "ConfigurationError")
       ELSE Outcome(c4, "none")

\* initialize, lines 112-142: SSL and URL of the wallet, timeout, prefix and
\* network parameters.
init_rest(cfg, o) ==
    LET c1 == [cfg EXCEPT !.WALLET_SSL = o.wallet_ssl,
                          !.WALLET_SSL_VERIFY = FALSE]
        c2 == [c1 EXCEPT !.WALLET_URL = wallet_url(c1),
                         !.REQUESTS_TIMEOUT = o.requests_timeout,
                         !.PREFIX = "ASPR"]
    IN network(c2)

\* initialize(testnet, ...): the globals it leaves and the exception it ends
\* with, "none" on a normal return.
initialize(cfg, o) ==
    LET r1 == init_rpc_port(cfg, o)
        r2 == init_wallet(init_rpc_url(r1.config, o), o)
    IN IF r1.exc # "none" THEN r1
       ELSE IF r2.exc # "none" THEN r2
       ELSE Outcome(init_rest(r2.config, o), "none")

\* The options a plain command line gives: only the wallet password is set.
DefaultOptions ==
    [testnet |-> FALSE, aspire_rpc_port |-> PortNone, aspire_rpc_password |-> "None",
     aspire_rpc_ssl |-> FALSE, wallet_port |-> PortNone, wallet_password |-> "p w",
     wallet_ssl |-> FALSE, requests_timeout |-> DEFAULT_REQUESTS_TIMEOUT]

\* Globals a process may hold when initialize is called: none yet, or those of
\* an earlier successful call for either network.
PriorConfigs ==
    {UnsetConfig, initialize(UnsetConfig, DefaultOptions).config,
     initialize(UnsetConfig,
                [DefaultOptions EXCEPT !.testnet = TRUE, !.wallet_ssl = TRUE,
                                       !.requests_timeout = LongTimeout]).config}

\* ---------------------------------------------------------------- state
VARIABLES
    args,            \* the parsed command line
    pc,              \* position in main
    callargs,        \* the argument mapping of the dispatch in flight
    result,          \* the protocol server's answer
    unsigned_hex, signed_tx_hex, tx_hash,
    error,           \* the exception that ended the run, or "none"
    states,          \* the workflow states passed through, in order
    trace,           \* calls, prompts and log lines, in order
    config,          \* the globals of aspirelib's config module
    method,          \* the method of the dispatch in flight
    returned,        \* what the last dispatch returned to its caller
    requests         \* the requests call has issued to the two backends

vars == <<args, pc, callargs, result, unsigned_hex, signed_tx_hex, tx_hash,
          error, states, trace, config, method, returned, requests>>

\* A request as a backend receives it.
Request(to, m, a) == [to |-> to, method |-> m, args |-> a]

State == IF states = << >> THEN "START" ELSE states[Len(states)]

Event(op, hex, text, res) == [op |-> op, hex |-> hex, text |-> text, res |-> res]

Init ==
    /\ args \in CommandLines
    /\ pc = "dispatch"
    /\ callargs = << >>
    /\ result = NoResult
    /\ unsigned_hex = None
    /\ signed_tx_hex = None
    /\ tx_hash = None
    /\ error = "none"
    /\ states = << >>
    /\ trace = << >>
    /\ config = initialize(UnsetConfig, DefaultOptions).config
    /\ method = << >>
    /\ returned = NoResult
    /\ requests = << >>

\* The caller of the dispatch in flight: compose for a transaction command
\* of main, or a program using call as a library.
from_compose == args.action \in MESSAGE_PARAMS

\* An exception propagates out of main, or out of call to its caller.
Raise(exc, events) ==
    /\ pc' = IF args.action = "call" THEN "call" ELSE "done"
    /\ error' = exc
    /\ states' = Append(states, "ABORTED")
    /\ trace' = trace \o events

\* call returns r (line 184); compose hands it to main as the unsigned hex
\* (main, line 180).
Return(r) ==
    /\ returned' = r
    /\ IF from_compose
       THEN /\ unsigned_hex' = r.hex
            /\ states' = Append(states, "COMPOSED")
            /\ pc' = "log_unsigned"
       ELSE /\ states' = Append(states, "RETURNED")
            /\ pc' = "call"
            /\ UNCHANGED unsigned_hex

\* main, lines 179, 206, 214: the command is a transaction command, a view
\* or neither.
Dispatch ==
    /\ pc = "dispatch"
    /\ IF args.action \in MESSAGE_PARAMS
       THEN /\ pc' = "call_resolve"
            /\ callargs' = extract_args(args)
            /\ states' = Append(states, "COMPOSING")
       ELSE /\ pc' = IF args.action \in VIEW_ACTIONS THEN "view" ELSE "help"
            /\ UNCHANGED <<callargs, states>>
    /\ UNCHANGED <<args, result, unsigned_hex, signed_tx_hex, tx_hash, error, trace>>
    /\ method' = IF args.action \in MESSAGE_PARAMS THEN create_method(args.action) ELSE method
    /\ UNCHANGED <<config, returned, requests>>

\* Variant: the allow-list test of line 165 is missing.
route_no_allow_list(m) == IF startswith_create(m) THEN "call_resolve" ELSE "call_api"

\* Variant: the prefix test of line 169 is missing.
route_no_prefix(m) == IF m \in WALLET_METHODS THEN "call_wallet" ELSE "call_resolve"

\* call, lines 165 and 169: the part of call a method is handled by.
route(m) ==
    IF m \in WALLET_METHODS THEN "call_wallet"
    ELSE IF startswith_create(m) THEN "call_resolve"
    ELSE "call_api"

\* call, line 152: a program calls call(method, args).  Nothing of an earlier
\* dispatch is kept.
Call ==
    /\ pc = "call"
    /\ \E c \in DispatchCalls :
        /\ args' = c
        /\ method' = c.method
        /\ callargs' = c.params
        /\ pc' = route(c.method)
    /\ result' = NoResult
    /\ returned' = NoResult
    /\ error' = "none"
    /\ states' = << >>
    /\ trace' = << >>
    /\ requests' = << >>
    /\ UNCHANGED <<unsigned_hex, signed_tx_hex, tx_hash, config>>

\* call, lines 166-167: the wallet function of that name is called with the
\* arguments and its result or exception is the dispatch's.
CallWallet ==
    /\ pc = "call_wallet"
    /\ requests' = Append(requests, Request("wallet", method, callargs))
    /\ \/ \E r \in WalletResults :
            /\ result' = r
            /\ trace' = Append(trace, Event("wallet", r.hex, "", Ok))
            /\ Return(r)
            /\ UNCHANGED error
       \/ \E exc \in WalletErrors :
            /\ Raise(exc, <<Event("wallet", None, exc, Raised)>>)
            /\ UNCHANGED <<result, returned, unsigned_hex>>
    /\ UNCHANGED <<args, callargs, signed_tx_hex, tx_hash, config, method>>

\* Variant: a failed lookup is swallowed and the call goes on.
CallResolve_swallow ==
    /\ pc = "call_resolve"
    /\ \E known \in SUBSET Members :
        LET addrs == resolved_addresses(callargs)
            okay(i) == needed(addrs[i]) \subseteq known
            ev(i) == Event("get_pubkeys", None, resolved_name(callargs, i),
                           IF okay(i) THEN Ok ELSE Raised)
        IN /\ callargs' = inject_pubkeys(callargs)
           /\ trace' = trace \o [i \in 1..Len(addrs) |-> ev(i)]
           /\ pc' = "call_api"
           /\ UNCHANGED <<error, states>>
    /\ UNCHANGED <<args, result, unsigned_hex, signed_tx_hex, tx_hash>>
    /\ UNCHANGED <<config, method, returned, requests>>

\* call, lines 169-177: resolve and inject the pubkeys of a construction
\* method.  known is the set of member addresses the callback can resolve.
CallResolve ==
    /\ pc = "call_resolve"
    /\ \E known \in SUBSET Members :
        LET addrs == resolved_addresses(callargs)
            okay(i) == needed(addrs[i]) \subseteq known
            ev(i) == Event("get_pubkeys", None, resolved_name(callargs, i),
                           IF okay(i) THEN Ok ELSE Raised)
            firstbad == IF \E i \in 1..Len(addrs) : ~okay(i)
                        THEN CHOOSE i \in 1..Len(addrs) :
                                 ~okay(i) /\ \A j \in 1..(i-1) : okay(j)
                        ELSE 0
        IN IF firstbad = 0
           THEN /\ callargs' = inject_pubkeys(callargs)
                /\ trace' = trace \o [i \in 1..Len(addrs) |-> ev(i)]
                /\ pc' = "call_api"
                /\ UNCHANGED <<error, states>>
           ELSE /\ Raise("ResolutionError", [i \in 1..firstbad |-> ev(i)])
                /\ UNCHANGED callargs
    /\ UNCHANGED <<args, result, unsigned_hex, signed_tx_hex, tx_hash>>
    /\ UNCHANGED <<config, method, returned, requests>>

\* call, line 179: util.api(method, args) returns the server's result or fails.
CallApi ==
    /\ pc = "call_api"
    /\ \/ \E r \in IF startswith_create(method) THEN ServerResults(callargs)
                   ELSE ReadResults :
            /\ result' = r
            /\ trace' = Append(trace, Event("api", r.hex, method[1], Ok))
            /\ pc' = "call_check"
            /\ UNCHANGED <<error, states>>
       \/ /\ Raise("AdapterError", <<Event("api", None, method[1], Raised)>>)
          /\ UNCHANGED result
    /\ UNCHANGED <<args, callargs, unsigned_hex, signed_tx_hex, tx_hash>>
    /\ requests' = Append(requests, Request("server", method, callargs))
    /\ UNCHANGED <<config, method, returned>>

\* Variant: the result is returned without validation.
CallCheck_unchecked ==
    /\ pc = "call_check"
    /\ Return(result)
    /\ UNCHANGED <<args, callargs, result, signed_tx_hex, tx_hash, error, trace>>
    /\ UNCHANGED <<config, method, requests>>

\* call, lines 181-184: the result of a construction method is validated
\* against the request, then the result is returned.
CallCheck ==
    /\ pc = "call_check"
    /\ IF ~startswith_create(method)
       THEN /\ Return(result)
            /\ UNCHANGED <<error, trace>>
       ELSE IF check_transaction(callargs, result)
       THEN /\ trace' = Append(trace, Event("check_transaction", result.hex, "create", Ok))
            /\ Return(result)
            /\ UNCHANGED error
       ELSE /\ Raise("TransactionError",
                     <<Event("check_transaction", result.hex, "create", Raised)>>)
            /\ UNCHANGED <<unsigned_hex, returned>>
    /\ UNCHANGED <<args, callargs, result, signed_tx_hex, tx_hash>>
    /\ UNCHANGED <<config, method, requests>>

\* main, line 181.
LogUnsigned ==
    /\ pc = "log_unsigned"
    /\ trace' = Append(trace, Event("log_unsigned", unsigned_hex, "", Ok))
    /\ pc' = "decide"
    /\ UNCHANGED <<args, callargs, result, unsigned_hex, signed_tx_hex, tx_hash,
                   error, states>>
    /\ UNCHANGED <<config, method, returned, requests>>

\* Variant: the multisig test of line 183 is missing.
branch_no_multisig(a) == IF a.unsigned THEN "stop" ELSE "confirm"

\* Variant: the --unsigned test of line 182 is missing.
branch_ignore_unsigned(a) == IF is_multisig(a.source) THEN "manual" ELSE "confirm"

\* main, lines 182-186: what follows the report of the unsigned hex.
branch(a) ==
    IF a.unsigned THEN "stop"
    ELSE IF is_multisig(a.source) THEN "manual"
    ELSE "confirm"

\* main, line 182: --unsigned stops the run here.
StopUnsigned ==
    /\ pc = "decide"
    /\ branch(args) = "stop"
    /\ pc' = "done"
    /\ states' = Append(states, "UNSIGNED_ONLY")
    /\ UNCHANGED <<args, callargs, result, unsigned_hex, signed_tx_hex, tx_hash,
                   error, trace>>
    /\ UNCHANGED <<config, method, returned, requests>>

\* Variant: after the hand-off message the run goes on to sign (an if in
\* place of the elif of line 186).
ManualHandoff_fallthrough ==
    /\ pc = "decide"
    /\ branch(args) = "manual"
    /\ trace' = Append(trace, Event("log_manual", None, "", Ok))
    /\ pc' = "is_mine"
    /\ states' = Append(states, "MANUAL_HANDOFF")
    /\ UNCHANGED <<args, callargs, result, unsigned_hex, signed_tx_hex, tx_hash, error>>
    /\ UNCHANGED <<config, method, returned, requests>>

\* main, lines 183-184.
ManualHandoff ==
    /\ pc = "decide"
    /\ branch(args) = "manual"
    /\ trace' = Append(trace, Event("log_manual", None, "", Ok))
    /\ pc' = "done"
    /\ states' = Append(states, "MANUAL_HANDOFF")
    /\ UNCHANGED <<args, callargs, result, unsigned_hex, signed_tx_hex, tx_hash, error>>
    /\ UNCHANGED <<config, method, returned, requests>>

\* Variant: the answer is compared case-insensitively.
confirmed_any_case(answer) == answer \in {"y", "Y"}

\* The answer that lets the run go on to sign, line 186.
confirmed(answer) == answer = "y"

\* main, line 186: the confirmation prompt.
Confirm ==
    /\ pc = "decide"
    /\ branch(args) = "confirm"
    /\ \E answer \in Answers :
        /\ trace' = Append(trace, Event("input_confirm", None, answer, Ok))
        /\ IF confirmed(answer)
           THEN pc' = "is_mine" /\ UNCHANGED states
           ELSE pc' = "done" /\ states' = Append(states, "ABORTED")
    /\ UNCHANGED <<args, callargs, result, unsigned_hex, signed_tx_hex, tx_hash, error>>
    /\ UNCHANGED <<config, method, returned, requests>>

\* Variant: the two custody branches are swapped.
custody_swapped(mine) == IF mine THEN "ask_key" ELSE "is_locked"

\* main, lines 188 and 194: the custody path taken for the source.
custody(mine) == IF mine THEN "is_locked" ELSE "ask_key"

\* main, line 188: wallet.is_mine(args.source).
IsMine ==
    /\ pc = "is_mine"
    /\ \/ \E mine \in BOOLEAN :
            /\ trace' = Append(trace, Event("is_mine", None, "",
                                             IF mine THEN True ELSE False))
            /\ pc' = custody(mine)
            /\ UNCHANGED <<error, states>>
       \/ Raise("AdapterError", <<Event("is_mine", None, "", Raised)>>)
    /\ UNCHANGED <<args, callargs, result, unsigned_hex, signed_tx_hex, tx_hash>>
    /\ UNCHANGED <<config, method, returned, requests>>

\* Variant: signing goes ahead without unlocking.
before_signing_skip(locked) == "sign_wallet"

\* main, lines 189-193: a locked wallet is unlocked before signing.
before_signing(locked) == IF locked THEN "unlock" ELSE "sign_wallet"

\* main, line 189: wallet.is_locked().
IsLocked ==
    /\ pc = "is_locked"
    /\ \/ \E locked \in BOOLEAN :
            /\ trace' = Append(trace, Event("is_locked", None, "",
                                             IF locked THEN True ELSE False))
            /\ pc' = before_signing(locked)
            /\ UNCHANGED <<error, states>>
       \/ Raise("AdapterError", <<Event("is_locked", None, "", Raised)>>)
    /\ UNCHANGED <<args, callargs, result, unsigned_hex, signed_tx_hex, tx_hash>>
    /\ UNCHANGED <<config, method, returned, requests>>

\* main, lines 190-192: ask for the passphrase and unlock the wallet.
Unlock ==
    /\ pc = "unlock"
    /\ \E passphrase \in Passphrases :
        LET asked == <<Event("getpass", None, passphrase, Ok),
                       Event("log_unlocking", None, "", Ok)>>
        IN \/ /\ trace' = trace \o asked \o <<Event("unlock", None, passphrase, Ok)>>
              /\ pc' = "sign_wallet"
              /\ UNCHANGED <<error, states>>
           \/ Raise("AdapterError",
                    asked \o <<Event("unlock", None, passphrase, Raised)>>)
    /\ UNCHANGED <<args, callargs, result, unsigned_hex, signed_tx_hex, tx_hash>>
    /\ UNCHANGED <<config, method, returned, requests>>

\* wallet.sign_raw_transaction(tx_hex, private_key_wif), after the events
\* asked: the signed hex the wallet returns, or a failure.
Sign(tx_hex, private_key_wif, asked) ==
    \/ \E signed \in SignedHexes :
        /\ signed_tx_hex' = signed
        /\ trace' = trace \o asked \o
                       <<Event("sign_raw_transaction", tx_hex, private_key_wif, signed)>>
        /\ states' = Append(states, "SIGNED")
        /\ pc' = "log_signed"
        /\ UNCHANGED error
    \/ /\ Raise("AdapterError", asked \o
                <<Event("sign_raw_transaction", tx_hex, private_key_wif, Raised)>>)
       /\ UNCHANGED signed_tx_hex

\* main, line 193: sign with the wallet's own key.
SignWallet ==
    /\ pc = "sign_wallet"
    /\ Sign(unsigned_hex, "None", << >>)
    /\ UNCHANGED <<args, callargs, result, unsigned_hex, tx_hash>>
    /\ UNCHANGED <<config, method, returned, requests>>

\* Variant: the empty-key test is missing.
key_missing_never(private_key_wif) == FALSE

\* main, line 196: an empty private key is rejected.
key_missing(private_key_wif) == private_key_wif = ""

\* main, lines 195-198: ask for the private key and sign with it.
SignKey ==
    /\ pc = "ask_key"
    /\ \E private_key_wif \in PrivateKeys :
        LET asked == <<Event("input_key", None, private_key_wif, Ok)>>
        IN IF key_missing(private_key_wif)
           THEN /\ Raise("TransactionError", asked)
                /\ UNCHANGED signed_tx_hex
           ELSE Sign(unsigned_hex, private_key_wif, asked)
    /\ UNCHANGED <<args, callargs, result, unsigned_hex, tx_hash>>
    /\ UNCHANGED <<config, method, returned, requests>>

\* Variant: the signed hex is not reported before the broadcast.
LogSigned_silent ==
    /\ pc = "log_signed"
    /\ pc' = "send"
    /\ UNCHANGED <<args, callargs, result, unsigned_hex, signed_tx_hex, tx_hash,
                   error, states, trace>>
    /\ UNCHANGED <<config, method, returned, requests>>

\* main, line 200.
LogSigned ==
    /\ pc = "log_signed"
    /\ trace' = Append(trace, Event("log_signed", signed_tx_hex, "", Ok))
    /\ pc' = "send"
    /\ UNCHANGED <<args, callargs, result, unsigned_hex, signed_tx_hex, tx_hash,
                   error, states>>
    /\ UNCHANGED <<config, method, returned, requests>>

\* Variant: the unsigned hex is broadcast.
broadcast_unsigned == unsigned_hex

\* The hex main hands to wallet.send_raw_transaction, line 201.
broadcast_hex == signed_tx_hex

\* main, line 201: wallet.send_raw_transaction(signed_tx_hex).
Send ==
    /\ pc = "send"
    /\ \/ \E h \in TxHashes :
            /\ tx_hash' = h
            /\ trace' = Append(trace, Event("send_raw_transaction", broadcast_hex, "", h))
            /\ states' = Append(states, "BROADCAST")
            /\ pc' = "log_hash"
            /\ UNCHANGED error
       \/ /\ Raise("AdapterError",
                   <<Event("send_raw_transaction", broadcast_hex, "", Raised)>>)
          /\ UNCHANGED tx_hash
    /\ UNCHANGED <<args, callargs, result, unsigned_hex, signed_tx_hex>>
    /\ UNCHANGED <<config, method, returned, requests>>

\* main, line 202.
LogHash ==
    /\ pc = "log_hash"
    /\ trace' = Append(trace, Event("log_hash", tx_hash, "", Ok))
    /\ pc' = "done"
    /\ UNCHANGED <<args, callargs, result, unsigned_hex, signed_tx_hex, tx_hash,
                   error, states>>
    /\ UNCHANGED <<config, method, returned, requests>>

\* main, lines 206-212: a view command fetches and prints its view.
View ==
    /\ pc = "view"
    /\ \/ /\ trace' = trace \o <<Event("get_view", None, args.action, Ok),
                                  Event("print_view", None, args.action, Ok)>>
          /\ pc' = "done"
          /\ states' = Append(states, "VIEWED")
          /\ UNCHANGED error
       \/ Raise("AdapterError", <<Event("get_view", None, args.action, Raised)>>)
    /\ UNCHANGED <<args, callargs, result, unsigned_hex, signed_tx_hex, tx_hash>>
    /\ UNCHANGED <<config, method, returned, requests>>

\* main, lines 214-215.
Help ==
    /\ pc = "help"
    /\ trace' = Append(trace, Event("print_help", None, "", Ok))
    /\ pc' = "done"
    /\ states' = Append(states, "HELP")
    /\ UNCHANGED <<args, callargs, result, unsigned_hex, signed_tx_hex, tx_hash, error>>
    /\ UNCHANGED <<config, method, returned, requests>>

Next ==
    \/ Dispatch
    \/ CallResolve
    \/ CallApi
    \/ CallCheck
    \/ LogUnsigned
    \/ StopUnsigned
    \/ ManualHandoff
    \/ Confirm
    \/ IsMine
    \/ IsLocked
    \/ Unlock
    \/ SignWallet
    \/ SignKey
    \/ LogSigned
    \/ Send
    \/ LogHash
    \/ View
    \/ Help

Spec == Init /\ [][Next]_vars

\* Every prompt is answered and every backend call returns or fails: a step
\* of main that can be taken is eventually taken.
FairSpec == Spec /\ WF_vars(Next)

\* ---------------------------------------------------------------- initialize
\* A call of initialize with any options, on the globals of a fresh process
\* or of one that was configured before.
InitInitialize ==
    /\ args \in Options
    /\ config \in PriorConfigs
    /\ pc = "initialize"
    /\ callargs = << >>
    /\ result = NoResult
    /\ unsigned_hex = None
    /\ signed_tx_hex = None
    /\ tx_hash = None
    /\ error = "none"
    /\ states = << >>
    /\ trace = << >>
    /\ method = << >>
    /\ returned = NoResult
    /\ requests = << >>

\* initialize, lines 20-142.
Initialize ==
    /\ pc = "initialize"
    /\ config' = initialize(config, args).config
    /\ error' = initialize(config, args).exc
    /\ pc' = IF initialize(config, args).exc = "none" THEN "initialized" ELSE "failed"
    /\ UNCHANGED <<args, callargs, result, unsigned_hex, signed_tx_hex, tx_hash,
                   states, trace, method, returned, requests>>

NextInitialize == Initialize

SpecInitialize == InitInitialize /\ [][NextInitialize]_vars

\* ---------------------------------------------------------------- call as a library
\* A configured process about to use call.
InitDispatch ==
    /\ args = [action |-> "call"]
    /\ config = initialize(UnsetConfig, DefaultOptions).config
    /\ pc = "call"
    /\ callargs = << >>
    /\ result = NoResult
    /\ unsigned_hex = None
    /\ signed_tx_hex = None
    /\ tx_hash = None
    /\ error = "none"
    /\ states = << >>
    /\ trace = << >>
    /\ method = << >>
    /\ returned = NoResult
    /\ requests = << >>

NextDispatch ==
    \/ Call
    \/ CallWallet
    \/ CallResolve
    \/ CallApi
    \/ CallCheck

SpecDispatch == InitDispatch /\ [][NextDispatch]_vars

\* ---------------------------------------------------------------- events
TypeOK ==
    /\ args \in CommandLines
    /\ pc \in {"dispatch", "call_resolve", "call_api", "call_check", "log_unsigned",
               "decide", "is_mine", "is_locked", "unlock", "sign_wallet", "ask_key",
               "log_signed", "send", "log_hash", "view", "help", "done"}
    /\ error \in {"none", "ResolutionError", "TransactionError", "AdapterError"}
    /\ unsigned_hex \in UnsignedHexes \cup {None}
    /\ signed_tx_hex \in SignedHexes \cup {None}
    /\ tx_hash \in TxHashes \cup {None}

\* ---------------------------------------------------------------- claims
Ops == {trace[i].op : i \in 1..Len(trace)}
Called(op) == op \in Ops
Count(op) == Cardinality({i \in 1..Len(trace) : trace[i].op = op})
At(op) == {i \in 1..Len(trace) : trace[i].op = op}
Passed(st) == \E i \in 1..Len(states) : states[i] = st

WalletOps == {"is_mine", "is_locked", "unlock", "sign_raw_transaction",
              "send_raw_transaction"}
TxCommand == args.action \in MESSAGE_PARAMS
ComposeReturned == unsigned_hex # None

\* C1: a transaction command without --unsigned whose source is multisig
\* stops, once compose has returned, in MANUAL_HANDOFF without error, and
\* neither the confirmation prompt nor any wallet operation ever happens.
C1_MultisigHandoff ==
    (TxCommand /\ ~args.unsigned /\ is_multisig(args.source) /\ ComposeReturned)
    => /\ ~Called("input_confirm")
       /\ Ops \cap WalletOps = {}
       /\ pc \in {"log_unsigned", "decide", "done"}
       /\ pc = "done" => (State = "MANUAL_HANDOFF" /\ error = "none")

C1_Witness ==
    /\ pc = "done" /\ State = "MANUAL_HANDOFF"
    /\ ~args.unsigned /\ args.source = Multi2of3 /\ ComposeReturned

\* C2: when composing fails (pubkey resolution, the server call, or the
\* validation of the echoed asset, quantity or address), the run ends in
\* ABORTED: the server is called at most once, and no confirmation, signing
\* or broadcast happens.
C2_ComposeFailureAborts ==
    LET mismatch == result.hex # None /\ ~check_transaction(callargs, result)
                    /\ pc # "call_check"
        failed == TxCommand /\ pc = "done" /\ ~Passed("COMPOSED")
    IN /\ Count("api") <= 1
       /\ mismatch => (pc = "done" /\ error = "TransactionError")
       /\ (failed \/ mismatch)
          => /\ State = "ABORTED" /\ error # "none"
             /\ ~ComposeReturned
             /\ ~Called("input_confirm")
             /\ ~Called("sign_raw_transaction")
             /\ ~Called("send_raw_transaction")

C2_Witness ==
    /\ pc = "done" /\ error = "TransactionError" /\ State = "ABORTED"
    /\ result.hex # None /\ result.quantity # callargs.quantity
    /\ result.asset = callargs.asset /\ result.source = callargs.source

\* C3: unlock is requested only after is_mine and is_locked both answered
\* true; a wallet-key signature on a locked wallet comes after a successful
\* unlock; and when unlock fails nothing is signed or broadcast.
C3_UnlockBeforeSign ==
    /\ \A i \in At("unlock") :
           /\ \E j \in 1..(i-1) : trace[j].op = "is_mine" /\ trace[j].res = True
           /\ \E j \in 1..(i-1) : trace[j].op = "is_locked" /\ trace[j].res = True
    /\ \A i \in At("sign_raw_transaction") :
           (\E j \in 1..(i-1) : trace[j].op = "is_locked" /\ trace[j].res = True)
           => \E j \in 1..(i-1) : trace[j].op = "unlock" /\ trace[j].res = Ok
    /\ (\E i \in At("unlock") : trace[i].res = Raised)
       => /\ pc = "done" /\ error # "none"
          /\ ~Called("sign_raw_transaction")
          /\ ~Called("send_raw_transaction")
    /\ (\E i \in At("is_locked") : trace[i].res = False) => ~Called("unlock")
    /\ (\E i \in At("is_mine") : trace[i].res = False) => ~Called("unlock")

C3_Witness ==
    /\ \E i \in At("unlock") : trace[i].res = Ok
    /\ \E i \in At("sign_raw_transaction") : trace[i].res \in SignedHexes

C3_WitnessUnlockFails ==
    /\ pc = "done"
    /\ \E i \in At("unlock") : trace[i].res = Raised

\* C4: every broadcast follows a successful signing call of the run and is
\* handed exactly the hex that call returned; the workflow is SIGNED only
\* after signing returned and BROADCAST only after the broadcast returned; a
\* failed signing is followed by no broadcast, SIGNED or BROADCAST.
C4_BroadcastAfterSign ==
    /\ \A i \in At("send_raw_transaction") :
           \E j \in 1..(i-1) :
               /\ trace[j].op = "sign_raw_transaction"
               /\ trace[j].res \in SignedHexes
               /\ trace[i].hex = trace[j].res
    /\ Passed("SIGNED")
       => \E i \in At("sign_raw_transaction") :
              trace[i].res \in SignedHexes /\ trace[i].res = signed_tx_hex
    /\ Passed("BROADCAST")
       => \E i \in At("send_raw_transaction") :
              trace[i].res \in TxHashes /\ trace[i].res = tx_hash
    /\ (\E i \in At("sign_raw_transaction") : trace[i].res = Raised)
       => /\ pc = "done"
          /\ ~Called("send_raw_transaction")
          /\ ~Passed("SIGNED") /\ ~Passed("BROADCAST")

C4_Witness ==
    /\ State = "BROADCAST"
    /\ signed_tx_hex = <<"signed", 2>> /\ unsigned_hex = <<"unsigned", 1>>
    /\ \E i \in At("send_raw_transaction") : trace[i].hex = <<"signed", 2>>

C4_WitnessSignFails ==
    /\ pc = "done"
    /\ \E i \in At("sign_raw_transaction") : trace[i].res = Raised

\* C5: for a plain source without --unsigned, an answer other than 'y' ends
\* the run in ABORTED without error and without any wallet operation; a
\* signing call always comes after the answer 'y'.
C5_DeclineAborts ==
    /\ (\E i \in At("input_confirm") : trace[i].text # "y")
       => /\ pc = "done" /\ State = "ABORTED" /\ error = "none"
          /\ Ops \cap WalletOps = {}
    /\ \A i \in At("sign_raw_transaction") :
           \E j \in 1..(i-1) : trace[j].op = "input_confirm" /\ trace[j].text = "y"
    /\ Called("input_confirm") => (~args.unsigned /\ ~is_multisig(args.source))

C5_Witness ==
    /\ pc = "done" /\ State = "ABORTED" /\ error = "none"
    /\ \E i \in At("input_confirm") : trace[i].text = "Y"

C5_WitnessSigned ==
    /\ Called("sign_raw_transaction")
    /\ \E i \in At("input_confirm") : trace[i].text = "y"

\* C6: with --unsigned, once compose has returned the run reports the
\* unsigned hex and stops without error whatever the source is: no manual
\* hand-off message, no confirmation prompt and no wallet operation.
C6_UnsignedOnlyStops ==
    (TxCommand /\ args.unsigned /\ ComposeReturned)
    => /\ ~Called("input_confirm")
       /\ ~Called("log_manual")
       /\ Ops \cap WalletOps = {}
       /\ pc \in {"log_unsigned", "decide", "done"}
       /\ pc = "done" => /\ State = "UNSIGNED_ONLY" /\ error = "none"
                         /\ \E i \in At("log_unsigned") : trace[i].hex = unsigned_hex

C6_Witness ==
    /\ pc = "done" /\ State = "UNSIGNED_ONLY"
    /\ args.unsigned /\ args.source = Multi2of3

C6_WitnessPlain ==
    /\ pc = "done" /\ State = "UNSIGNED_ONLY"
    /\ args.unsigned /\ args.source = PlainA

\* C7: when the wallet does not hold the source and the private key entered
\* is empty, the run fails with TransactionError and nothing is signed or
\* broadcast; on the not-held branch the lock state is never queried and
\* unlock never requested.
C7_EmptyKeyFails ==
    /\ (\E i \in At("input_key") : trace[i].text = "")
       => /\ pc = "done" /\ error = "TransactionError" /\ State = "ABORTED"
          /\ ~Called("sign_raw_transaction")
          /\ ~Called("send_raw_transaction")
    /\ (\E i \in At("is_mine") : trace[i].res = False)
       => (~Called("is_locked") /\ ~Called("unlock"))
    /\ \A i \in At("input_key") :
           \E j \in 1..(i-1) : trace[j].op = "is_mine" /\ trace[j].res = False

C7_Witness ==
    /\ pc = "done" /\ error = "TransactionError"
    /\ \E i \in At("input_key") : trace[i].text = ""

\* C8: signing and broadcasting are each called at most once per run; the
\* signing call carries no private key exactly when the wallet reported the
\* source as its own, and otherwise the key the user entered.
C8_OneSigningPath ==
    /\ Count("sign_raw_transaction") <= 1
    /\ Count("send_raw_transaction") <= 1
    /\ \A i \in At("sign_raw_transaction") :
           /\ trace[i].hex = unsigned_hex
           /\ IF \E j \in 1..(i-1) : trace[j].op = "is_mine" /\ trace[j].res = True
              THEN trace[i].text = "None" /\ ~Called("input_key")
              ELSE /\ \E j \in 1..(i-1) : trace[j].op = "is_mine" /\ trace[j].res = False
                   /\ trace[i].text \notin {"None", ""}
                   /\ \E j \in 1..(i-1) : /\ trace[j].op = "input_key"
                                            /\ trace[j].text = trace[i].text

C8_Witness ==
    /\ pc = "done"
    /\ \E i \in At("sign_raw_transaction") : trace[i].text = "None"
    /\ \E i \in At("send_raw_transaction") : trace[i].res = Raised

C8_WitnessKey ==
    /\ pc = "done"
    /\ \E i \in At("sign_raw_transaction") : trace[i].text = "K1" /\ trace[i].res = Raised

ScenarioA ==
    /\ pc = "done" /\ error = "none"
    /\ args.action = "send" /\ ~args.unsigned
    /\ ~is_multisig(args.source) /\ ~is_multisig(args.destination)
    /\ \E i \in At("input_confirm") : trace[i].text = "y"
    /\ \E i \in At("is_mine") : trace[i].res = True

C10_ScenarioA ==
    ScenarioA
    => /\ states = <<"COMPOSING", "COMPOSED", "SIGNED", "BROADCAST">>
       /\ callargs.pubkey = <<pubkey_resolver(args.source[1])>>
       /\ check_transaction(callargs, result)
       /\ \E i \in At("sign_raw_transaction") :
              /\ trace[i].text = "None"
              /\ trace[i].hex = result.hex
              /\ trace[i].res = signed_tx_hex
       /\ \E i \in At("send_raw_transaction") :
              /\ trace[i].hex = signed_tx_hex
              /\ trace[i].res = tx_hash
       /\ tx_hash \in TxHashes
       /\ \E i \in At("log_hash") : trace[i].hex = tx_hash

C10_Witness ==
    /\ ScenarioA
    /\ args.source = PlainA /\ args.destination = PlainB
    /\ args.quantity = 1 /\ args.asset = "FOO"
    /\ State = "BROADCAST"

\* ---------------------------------------------------------------- claims on initialize
NetworkNames == {"MAGIC_BYTES", "ADDRESSVERSION", "P2SH_ADDRESSVERSION",
                 "BLOCK_FIRST", "UNSPENDABLE"}

\* The port a service ends up with is bad: not a number, or outside (1, 65535).
BadPort(p, default) ==
    LET used == IF port_given(p) THEN p ELSE PortInt(default)
    IN used.kind = "badstr" \/ ~(1 < used.val /\ used.val < 65535)

BadRpcPort ==
    BadPort(args.aspire_rpc_port,
            IF args.testnet THEN DEFAULT_RPC_PORT_TESTNET ELSE DEFAULT_RPC_PORT)
BadWalletPort ==
    BadPort(args.wallet_port,
            IF args.testnet THEN DEFAULT_BACKEND_PORT_TESTNET ELSE DEFAULT_BACKEND_PORT)

\* C12: whenever initialize returns normally, the protocol-server port and
\* the wallet port it stored are integers strictly between 1 and 65535.
C12_PortsInRange ==
    pc = "initialized"
    => /\ config.ASPIRE_RPC_PORT.kind = "int"
       /\ 1 < config.ASPIRE_RPC_PORT.val /\ config.ASPIRE_RPC_PORT.val < 65535
       /\ config.WALLET_PORT.kind = "int"
       /\ 1 < config.WALLET_PORT.val /\ config.WALLET_PORT.val < 65535

C12_Witness ==
    /\ pc = "initialized"
    /\ args.aspire_rpc_port = PortInt(65534) /\ config.ASPIRE_RPC_PORT.val = 65534
    /\ args.wallet_port = PortStr(4001) /\ config.WALLET_PORT = PortInt(4001)

\* C13: when the protocol-server port or the wallet port is not a number or
\* lies outside (1, 65535), initialize fails with ConfigurationError.
C13_BadPortIsConfigurationError ==
    (pc # "initialize" /\ (BadRpcPort \/ BadWalletPort))
    => (pc = "failed" /\ error = "ConfigurationError")

\* C14: when the wallet password is absent or empty, initialize fails with
\* ConfigurationError whatever the other options are, and leaves the wallet
\* URL as it was.
C14_NoPasswordIsConfigurationError ==
    [][(pc = "initialize" /\ ~given(args.wallet_password))
       => /\ pc' = "failed" /\ error' = "ConfigurationError"
          /\ config'.WALLET_URL = config.WALLET_URL]_vars

\* C15: after a successful initialize the five network parameters all come
\* from one set: the testnet set if testnet mode was selected, the mainnet
\* set otherwise.
C15_OneNetworkSet ==
    pc = "initialized"
    => \A name \in NetworkNames :
           config[name] = NetworkParam(IF args.testnet THEN "TESTNET" ELSE "MAINNET",
                                       name)

C15_Witness ==
    /\ pc = "initialized" /\ args.testnet
    /\ config.P2SH_ADDRESSVERSION = NetworkParam("TESTNET", "P2SH_ADDRESSVERSION")
    /\ config.MAGIC_BYTES = NetworkParam("TESTNET", "MAGIC_BYTES")

\* C16: the protocol-server URL is https exactly when the protocol server's
\* SSL flag is set, and the wallet URL is https exactly when the wallet's SSL
\* flag is set, each whatever the other flag is.
C16_SchemePerService ==
    /\ (pc = "initialized" \/ error = "ConfigurationError")
       => config.ASPIRE_RPC.scheme = IF args.aspire_rpc_ssl THEN "https" ELSE "http"
    /\ pc = "initialized"
       => config.WALLET_URL.scheme = IF args.wallet_ssl THEN "https" ELSE "http"

C16_Witness ==
    /\ pc = "initialized"
    /\ args.aspire_rpc_ssl /\ ~args.wallet_ssl
    /\ config.ASPIRE_RPC.scheme = "https" /\ config.WALLET_URL.scheme = "http"

\* ---------------------------------------------------------------- claims on call
InCall == args.action = "call" /\ "method" \in DOMAIN args
WalletDispatch == InCall /\ args.method \in WALLET_METHODS
CreateDispatch ==
    InCall /\ args.method \notin WALLET_METHODS /\ args.method[1] = "create"
ReadDispatch ==
    InCall /\ args.method \notin WALLET_METHODS /\ args.method[1] # "create"
Resolved == pc \in {"call_api", "call_check"} \/ Called("api")

\* The pubkey sequence the claim describes for the caller's arguments p.
ExpectedPubkeys(p) ==
    (IF "source" \in DOMAIN p THEN get_pubkeys(p.source) ELSE << >>)
    \o (IF "destination" \in DOMAIN p
        THEN IF Len(p.destination) = 1 THEN << >> ELSE get_pubkeys(p.destination)
        ELSE << >>)

\* C11: in a construction-method dispatch the 'pubkey' argument sent to the
\* server is the keys of the source (if there is one) followed by the keys of
\* the destination only if that is multisig; it replaces a 'pubkey' value of
\* the caller, and every other argument is passed on as given.
C11_InjectedPubkeys ==
    (CreateDispatch /\ Resolved)
    => /\ DOMAIN callargs = DOMAIN args.params \cup {"pubkey"}
       /\ callargs.pubkey = ExpectedPubkeys(args.params)
       /\ \A k \in DOMAIN args.params \ {"pubkey"} : callargs[k] = args.params[k]
       /\ \A i \in 1..Len(requests) :
              requests[i].args.pubkey = ExpectedPubkeys(args.params)

C11_Witness ==
    /\ CreateDispatch /\ pc = "call_check"
    /\ "pubkey" \in DOMAIN args.params
    /\ args.params.source = Multi2of3 /\ args.params.destination = PlainB
    /\ Len(requests) = 1 /\ Len(requests[1].args.pubkey) = 3

C11_WitnessNoSource ==
    /\ CreateDispatch /\ pc = "call_check"
    /\ "source" \notin DOMAIN args.params
    /\ args.params.destination = Multi2of3
    /\ Len(callargs.pubkey) = 3

C17_WitnessRaises ==
    /\ WalletDispatch /\ pc = "call" /\ error = "WalletError"

\* C18: a dispatch of a method that is neither wallet-local nor a
\* construction method sends the server the method and the arguments exactly
\* as given (so equal calls send equal requests): no 'pubkey' is added, no
\* key is resolved, nothing is validated, and the server's result is returned.
C18_ForwardVerbatim ==
    ReadDispatch
    => /\ pc \in {"call_api", "call_check", "call"}
       /\ callargs = args.params
       /\ Ops \subseteq {"api"}
       /\ Len(requests) <= 1
       /\ \A i \in 1..Len(requests) :
              requests[i] = Request("server", args.method, args.params)
       /\ pc = "call"
          => /\ Len(requests) = 1
             /\ \/ error = "none" /\ returned = result /\ returned \in ReadResults
                \/ error = "AdapterError" /\ returned = NoResult

C18_Witness ==
    /\ ReadDispatch /\ pc = "call" /\ error = "none"
    /\ args.method = <<"get", "sends">>
    /\ "destination" \in DOMAIN args.params /\ args.params.source = Multi2of3
    /\ "pubkey" \notin DOMAIN requests[1].args

C18_WitnessOwnPubkey ==
    /\ ReadDispatch /\ pc = "call" /\ error = "none"
    /\ "pubkey" \in DOMAIN args.params
    /\ requests[1].args.pubkey = CallerPubkey

\* C19: in a construction-method dispatch the keys are resolved before the
\* server is called and the result is validated after it and before it is
\* returned: a failed resolution is followed by no server call and no
\* result, a failed validation by no result.
C19_ResolveCallValidate ==
    CreateDispatch
    => /\ \A i \in At("api") :
              /\ \A j \in At("get_pubkeys") : j < i /\ trace[j].res = Ok
              /\ "source" \in DOMAIN args.params => Called("get_pubkeys")
       /\ (\E j \in At("get_pubkeys") : trace[j].res = Raised)
          => /\ pc = "call" /\ error = "ResolutionError"
             /\ ~Called("api") /\ requests = << >>
             /\ returned = NoResult
       /\ \A i \in At("check_transaction") :
              \E j \in 1..(i-1) : trace[j].op = "api" /\ trace[j].res = Ok
       /\ (\E i \in At("check_transaction") : trace[i].res = Raised)
          => (pc = "call" /\ error = "TransactionError" /\ returned = NoResult)
       /\ returned # NoResult
          => /\ \E i \in At("check_transaction") : trace[i].res = Ok
             /\ returned = result
             /\ check_transaction(callargs, returned)

C19_Witness ==
    /\ CreateDispatch /\ pc = "call" /\ error = "ResolutionError"
    /\ Len(trace) = 2 /\ trace[1].res = Ok
    /\ trace[2].text = "destination" /\ trace[2].res = Raised

C19_WitnessValidation ==
    /\ CreateDispatch /\ pc = "call" /\ error = "TransactionError"
    /\ result.hex \in UnsignedHexes /\ returned = NoResult

C19_WitnessReturned ==
    /\ CreateDispatch /\ pc = "call" /\ returned.hex \in UnsignedHexes

\* ---------------------------------------------------------------- termination
TerminalStates == {"UNSIGNED_ONLY", "MANUAL_HANDOFF", "ABORTED", "BROADCAST"}
BackendOps == WalletOps \cup {"get_pubkeys", "api", "get_view"}
TerminalCount == Cardinality({i \in 1..Len(states) : states[i] \in TerminalStates})

\* C20: every transaction command eventually finishes, with exactly one of
\* the terminal outcomes (unsigned-only stop, MANUAL_HANDOFF, ABORTED,
\* BROADCAST); once an outcome is reached no backend is called any more, and
\* a finished run takes no further step.
C20_Terminates ==
    /\ TxCommand => <>(pc = "done")
    /\ [](TxCommand => /\ TerminalCount <= 1
                       /\ pc = "done" => (TerminalCount = 1 /\ State \in TerminalStates))
    /\ [][(TxCommand /\ TerminalCount = 1)
          => /\ Len(trace') >= Len(trace)
             /\ \A i \in (Len(trace) + 1)..Len(trace') : trace'[i].op \notin BackendOps
             /\ states' = states]_vars
    /\ [][pc = "done" => UNCHANGED vars]_vars

C20_Witness ==
    /\ TxCommand /\ pc = "done" /\ State = "BROADCAST" /\ TerminalCount = 1

\* C21: a failing initialize, whichever check it fails at (protocol-server
\* port, wallet port, wallet password), leaves the five network parameters,
\* the request timeout and the wallet URL as they were; these are written
\* only by a call that returns normally.
C21_FailureKeepsBoundFields ==
    [][(pc = "initialize" /\ pc' # "initialized")
       => /\ \A name \in NetworkNames : config'[name] = config[name]
          /\ config'.REQUESTS_TIMEOUT = config.REQUESTS_TIMEOUT
          /\ config'.WALLET_URL = config.WALLET_URL]_vars

\* A failed call for mainnet on a process configured for testnet: the network
\* mode is switched, the testnet parameters, timeout and wallet URL remain.
C21_Witness ==
    /\ pc = "failed" /\ error = "ConfigurationError"
    /\ ~given(args.wallet_password)
    /\ ~args.testnet /\ ~config.TESTNET
    /\ args.requests_timeout = DEFAULT_REQUESTS_TIMEOUT
    /\ config.REQUESTS_TIMEOUT = LongTimeout
    /\ config.MAGIC_BYTES = NetworkParam("TESTNET", "MAGIC_BYTES")
    /\ config.WALLET_URL.scheme = "https" /\ ~args.wallet_ssl

\* The options that read as port 0: the integer 0 and the text "0".
ZeroPort(p) == p.kind \in {"int", "str"} /\ p.val = 0

\* The options Python holds false at lines 43 and 89: None and the integer 0.
FalsyPort(p) == p.kind = "none" \/ (p.kind = "int" /\ p.val = 0)

\* A supplied numeric port other than 0 that lies inside the accepted range.
KeptPort(p) == p.kind \in {"int", "str"} /\ p.val # 0 /\ p.val > 1 /\ p.val < 65535

DefaultRpcPort(o) ==
    PortInt(IF o.testnet THEN DEFAULT_RPC_PORT_TESTNET ELSE DEFAULT_RPC_PORT)

DefaultWalletPort(o) ==
    PortInt(IF o.testnet THEN DEFAULT_BACKEND_PORT_TESTNET ELSE DEFAULT_BACKEND_PORT)

\* The protocol-server port was accepted, so the wallet port has been handled.
RpcPortPassed == pc \in {"initialized", "failed"} /\ error # rpc_port_error

\* C22 as stated: an unset port or a port given as 0, in either form, is
\* replaced by the default of the selected network, for each service apart,
\* causes no failure and is not left in the configuration; any other supplied
\* port inside the range is kept.
C22_ZeroPortTakesDefault ==
    pc \in {"initialized", "failed"} =>
        /\ (args.aspire_rpc_port.kind = "none" \/ ZeroPort(args.aspire_rpc_port))
               => /\ error # rpc_port_error
                  /\ config.ASPIRE_RPC_PORT = DefaultRpcPort(args)
        /\ (RpcPortPassed /\ (args.wallet_port.kind = "none" \/ ZeroPort(args.wallet_port)))
               => /\ config.WALLET_PORT = DefaultWalletPort(args)
                  /\ given(args.wallet_password) => pc = "initialized"
        /\ KeptPort(args.aspire_rpc_port)
               => /\ error # rpc_port_error
                  /\ config.ASPIRE_RPC_PORT = PortInt(args.aspire_rpc_port.val)
        /\ (RpcPortPassed /\ KeptPort(args.wallet_port))
               => /\ config.WALLET_PORT = PortInt(args.wallet_port.val)
                  /\ given(args.wallet_password) => pc = "initialized"

\* C22, amended: an unset port or the integer 0 is replaced by the default of
\* the selected network, for each service apart, causes no failure and is not
\* left in the configuration; the text "0" is not replaced: it is converted to
\* 0, rejected by the range check and left in the configuration; any other
\* supplied port inside the range is kept, as an integer.
C22_FalsyPortTakesDefault ==
    pc \in {"initialized", "failed"} =>
        /\ FalsyPort(args.aspire_rpc_port)
               => /\ error # rpc_port_error
                  /\ config.ASPIRE_RPC_PORT = DefaultRpcPort(args)
        /\ (RpcPortPassed /\ FalsyPort(args.wallet_port))
               => /\ config.WALLET_PORT = DefaultWalletPort(args)
                  /\ given(args.wallet_password) => pc = "initialized"
        /\ args.aspire_rpc_port = PortStr(0)
               => /\ pc = "failed" /\ error = rpc_port_error
                  /\ config.ASPIRE_RPC_PORT = PortInt(0)
        /\ (RpcPortPassed /\ args.wallet_port = PortStr(0))
               => /\ pc = "failed" /\ error = wallet_port_error
                  /\ config.WALLET_PORT = PortInt(0)
        /\ KeptPort(args.aspire_rpc_port)
               => /\ error # rpc_port_error
                  /\ config.ASPIRE_RPC_PORT = PortInt(args.aspire_rpc_port.val)
        /\ (RpcPortPassed /\ KeptPort(args.wallet_port))
               => /\ config.WALLET_PORT = PortInt(args.wallet_port.val)
                  /\ given(args.wallet_password) => pc = "initialized"

\* Testnet selected, protocol-server port given as the integer 0 and wallet
\* port unset: both take the testnet defaults and the call succeeds.
C22_Witness ==
    /\ pc = "initialized" /\ args.testnet
    /\ args.aspire_rpc_port = PortInt(0)
    /\ config.ASPIRE_RPC_PORT = PortInt(DEFAULT_RPC_PORT_TESTNET)
    /\ args.wallet_port = PortNone
    /\ config.WALLET_PORT = PortInt(DEFAULT_BACKEND_PORT_TESTNET)

\* The wallet port given as the text "0" with a password present: rejected,
\* and 0 is what the configuration holds.
C22_WitnessText ==
    /\ pc = "failed" /\ error = wallet_port_error
    /\ given(args.wallet_password)
    /\ args.wallet_port = PortStr(0)
    /\ config.WALLET_PORT = PortInt(0)

\* A supplied port inside the range, integer or text, is kept.
C22_WitnessKept ==
    /\ pc = "initialized"
    /\ args.aspire_rpc_port = PortStr(4001)
    /\ config.ASPIRE_RPC_PORT = PortInt(4001)
    /\ args.wallet_port = PortInt(65534)
    /\ config.WALLET_PORT = PortInt(65534)
====
